---- MODULE Spec2Model ----
(***************************************************************************)
(* blocklist-generator: the line grammar (src/src/parse.rs), the source    *)
(* fetcher and the bounded concurrent merge (src/src/fetch.rs) and the     *)
(* post-processing of main (src/src/main.rs, src/src/file_system.rs).      *)
(*                                                                         *)
(* A string is a sequence of characters, each character a one-character    *)
(* TLA+ string; "e_acute" stands for one non-ASCII character (two bytes in *)
(* UTF-8).                                                                 *)
(***************************************************************************)
EXTENDS Integers, Sequences, FiniteSets, TLC

----------------------------------------------------------------------------
(* Characters                                                              *)

\* is_digit, char::is_ascii_digit
Digits == {"0", "1", "2", "3", "4", "5", "6", "7", "8", "9"}

LowerLetters ==
    <<"a", "b", "c", "d", "e", "f", "g", "h", "i", "j", "k", "l", "m",
      "n", "o", "p", "q", "r", "s", "t", "u", "v", "w", "x", "y", "z">>

UpperLetters ==
    <<"A", "B", "C", "D", "E", "F", "G", "H", "I", "J", "K", "L", "M",
      "N", "O", "P", "Q", "R", "S", "T", "U", "V", "W", "X", "Y", "Z">>

Range(f) == {f[i] : i \in DOMAIN f}

Letters == Range(LowerLetters) \cup Range(UpperLetters)

\* alt((alphanumeric1, tag("-"), tag("_")))
LabelChars == Letters \cup Digits \cup {"-", "_"}

\* nom multispace1: space, tab, carriage return, line feed
MultispaceChars == {" ", "\t", "\r", "\n"}

\* char::is_whitespace restricted to the characters of the model
WhitespaceChars == {" ", "\t", "\r", "\n"}

\* bytes of a character in UTF-8
ByteLen(c) == IF c = "e_acute" THEN 2 ELSE 1

DigitValue(c) == CHOOSE v \in 0..9 : <<"0", "1", "2", "3", "4", "5", "6", "7", "8", "9">>[v + 1] = c

----------------------------------------------------------------------------
(* Strings                                                                 *)

Min(S) == CHOOSE x \in S : \A y \in S : x <= y

\* length of the longest prefix of s made of characters of C
RunLen(s, C) ==
    LET bad == {i \in 1..Len(s) : s[i] \notin C}
    IN  IF bad = {} THEN Len(s) ELSE Min(bad) - 1

Take(s, n) == SubSeq(s, 1, n)
Drop(s, n) == SubSeq(s, n + 1, Len(s))

RECURSIVE Rep(_, _)
Rep(c, n) == IF n = 0 THEN <<>> ELSE <<c>> \o Rep(c, n - 1)

RECURSIVE DecValue(_)
DecValue(s) == IF s = <<>> THEN 0 ELSE 10 * DecValue(Take(s, Len(s) - 1)) + DigitValue(s[Len(s)])

----------------------------------------------------------------------------
(* The grammar (parse.rs).  A nom result is Ok((rest, out)) or             *)
(* Err(Error{input, code}).  A combinator that works on the result of      *)
(* another takes that result as a parameter.                               *)

POk(rest, out) == [ok |-> TRUE, rest |-> rest, out |-> out, code |-> "Ok"]
PErr(input, code) == [ok |-> FALSE, rest |-> input, out |-> <<>>, code |-> code]

\* the first n characters of input as the output, the others as the rest
SplitOff(input, n) == POk(Drop(input, n), Take(input, n))

U8Max == 255

\* str::parse::<u8>().is_ok() on a string of ASCII digits
ParsesAsU8(val) == val # <<>> /\ DecValue(val) <= U8Max

OctetMinDigits == 1
OctetMaxDigits == 3

\* take_while_m_n(m, n, cond) once the run of characters satisfying cond is known
TakeWhileMN(m, n, input, run) ==
    IF run < m THEN PErr(input, "TakeWhileMN")
    ELSE IF run > n THEN SplitOff(input, n)
    ELSE SplitOff(input, run)

\* verify(_, |val| val.parse::<u8>().is_ok()) on the result r of the inner parser
VerifyU8(input, r) ==
    IF ~r.ok THEN r
    ELSE IF ParsesAsU8(r.out) THEN r
    ELSE PErr(input, "Verify")

\* parse_ipv4_octet without verify
parse_ipv4_octet_unverified(input) ==
    TakeWhileMN(OctetMinDigits, OctetMaxDigits, input, RunLen(input, Digits))

parse_ipv4_octet(input) ==
    VerifyU8(input, TakeWhileMN(OctetMinDigits, OctetMaxDigits, input, RunLen(input, Digits)))

MaxLabelLen == 63

\* parse_hostname_element, cutting a long run at 63 characters
VerifyLabelTruncating(input, run) ==
    IF run < 1 THEN PErr(input, "Many1Count") ELSE SplitOff(input, Min({run, MaxLabelLen}))

\* verify(recognize(many1_count(alt(..))), |val| val.len() <= 63) once the run
\* of label characters is known
VerifyLabel(input, run) ==
    IF run < 1 THEN PErr(input, "Many1Count")
    ELSE IF run <= MaxLabelLen THEN SplitOff(input, run)
    ELSE PErr(input, "Verify")

parse_hostname_element(input) == VerifyLabel(input, RunLen(input, LabelChars))

\* pair(p, tag(".")) on the result r of p
ThenDot(input, r) ==
    IF ~r.ok THEN r
    ELSE IF r.rest # <<>> /\ Head(r.rest) = "." THEN SplitOff(input, Len(r.out) + 1)
    ELSE PErr(r.rest, "Tag")

\* pair(parse_hostname_element, tag("."))
LabelDot(input) == ThenDot(input, parse_hostname_element(input))

\* the number of characters the repetition of pair(parse_hostname_element,
\* tag(".")) consumes: it stops at the first failing pair and never gives
\* back a pair
RECURSIVE LabelDotsLen(_), LabelDotsMore(_)
LabelDotsLen(input) == LabelDotsMore(LabelDot(input))
LabelDotsMore(p) == IF ~p.ok THEN 0 ELSE Len(p.out) + LabelDotsLen(p.rest)

\* recognize(tuple((many1_count(..), parse_hostname_element))) once the n
\* characters of the pairs and the result last of the final element are known
HostnameEnd(input, n, last) ==
    IF n = 0 THEN PErr(input, "Many1Count")
    ELSE IF ~last.ok THEN last
    ELSE POk(last.rest, Take(input, n + Len(last.out)))

HostnameAt(input, n) == HostnameEnd(input, n, parse_hostname_element(Drop(input, n)))

parse_hostname(input) == HostnameAt(input, LabelDotsLen(input))

\* pair(parse_ipv4_octet, tag("."))
OctetDot(input) == ThenDot(input, parse_ipv4_octet(input))

CountAnd(len, more) == <<1 + more[1], len + more[2]>>

\* many0_count(pair(parse_ipv4_octet, tag("."))): <<count, characters consumed>>
RECURSIVE OctetDots(_), OctetDotsMore(_)
OctetDots(input) == OctetDotsMore(OctetDot(input))
OctetDotsMore(p) == IF ~p.ok THEN <<0, 0>> ELSE CountAnd(Len(p.out), OctetDots(p.rest))

MaxOctetDots == 3

\* recognize(pair(verify(many0_count(..), |val| *val <= 3), parse_ipv4_octet))
\* once the count and length m of the pairs and the result last of the final
\* octet are known
AddressEnd(input, m, last) ==
    IF m[1] > MaxOctetDots THEN PErr(input, "Verify")
    ELSE IF ~last.ok THEN last
    ELSE POk(last.rest, Take(input, m[2] + Len(last.out)))

AddressAt(input, m) == AddressEnd(input, m, parse_ipv4_octet(Drop(input, m[2])))

parse_ipv4_address(input) == AddressAt(input, OctetDots(input))

\* multispace1 once the run of whitespace is known
TakeSpaces(input, run) ==
    IF run < 1 THEN PErr(input, "MultiSpace") ELSE SplitOff(input, run)

Multispace1(input) == TakeSpaces(input, RunLen(input, MultispaceChars))

\* Option<&str>
None == [some |-> FALSE, val |-> <<>>]
Some(v) == [some |-> TRUE, val |-> v]

\* TokenOf, for a recognizer that must consume the whole line
TokenOfWholeLine(r) == IF r.ok /\ r.rest = <<>> THEN Some(r.out) ELSE None

\* let Ok((_rest, hostname)) = .. else { return None }; Some(hostname)
TokenOf(r) == IF r.ok THEN Some(r.out) ELSE None

parse_domainlist_line(input) == TokenOf(parse_hostname(input))

\* tuple((parse_ipv4_address, multispace1, parse_hostname)), after multispace1
HostfileAfterSpace(w) == IF ~w.ok THEN None ELSE TokenOf(parse_hostname(w.rest))

\* tuple((parse_ipv4_address, multispace1, parse_hostname)), after the address
HostfileAfterAddress(a) == IF ~a.ok THEN None ELSE HostfileAfterSpace(Multispace1(a.rest))

\* parse_hostfile_line, taking the address of the tuple for the hostname
parse_hostfile_line_address(input) == TokenOf(parse_ipv4_address(input))

parse_hostfile_line(input) == HostfileAfterAddress(parse_ipv4_address(input))

----------------------------------------------------------------------------
(* url::Host::parse on a token of the grammar: the name is lower-cased;    *)
(* a name whose last label is a number is an IPv4 address in the WHATWG    *)
(* notation (up to 4 parts, decimal, octal or hexadecimal, the last part   *)
(* filling the remaining bytes) or is rejected; any other name is a        *)
(* domain.                                                                 *)

Lowercase(c) ==
    IF c \in Range(UpperLetters)
    THEN LowerLetters[CHOOSE i \in DOMAIN UpperLetters : UpperLetters[i] = c]
    ELSE c

ToLower(s) == [i \in 1..Len(s) |-> Lowercase(s[i])]

\* the pieces of s between the separators, the first of them n long
RECURSIVE Split(_, _), SplitAt(_, _, _)
Split(s, sep) == SplitAt(s, sep, RunLen(s, Range(s) \ {sep}))
SplitAt(s, sep, n) ==
    IF n = Len(s) THEN <<s>> ELSE <<Take(s, n)>> \o Split(Drop(s, n + 1), sep)

HexDigits == <<"0", "1", "2", "3", "4", "5", "6", "7", "8", "9", "a", "b", "c", "d", "e", "f">>

RadixDigits(radix) == {HexDigits[i] : i \in 1..radix}

HexValue(c) == (CHOOSE i \in DOMAIN HexDigits : HexDigits[i] = c) - 1

RECURSIVE RadixValue(_, _)
RadixValue(s, radix) ==
    IF s = <<>> THEN 0
    ELSE radix * RadixValue(Take(s, Len(s) - 1), radix) + HexValue(s[Len(s)])

RECURSIVE Pow256(_)
Pow256(n) == IF n = 0 THEN 1 ELSE 256 * Pow256(n - 1)

MaxIpv4Parts == 4

\* A name of the grammar has two parts or more, so its last part must stay
\* below 256^3 and every number of 256^3 or more is rejected alike: the value
\* of a number saturates at 256^3, which keeps the arithmetic within 31 bits.
Saturated == Pow256(MaxIpv4Parts - 1)

StripZeros(digits) == Drop(digits, RunLen(digits, {"0"}))

AtMost(n, cap) == IF n > cap THEN cap ELSE n

\* the value of the digits d, which have no leading zero
SatValueOf(d, radix) ==
    IF Len(d) > (IF radix = 16 THEN 6 ELSE 8) THEN Saturated
    ELSE AtMost(RadixValue(d, radix), Saturated)

SatValue(digits, radix) == SatValueOf(StripZeros(digits), radix)

\* url::host::parse_ipv4number on a lower-cased part: [ok, n]
ParseIpv4Number(part) ==
    LET hex    == Len(part) >= 2 /\ part[1] = "0" /\ part[2] = "x"
        octal  == ~hex /\ Len(part) >= 2 /\ part[1] = "0"
        radix  == IF hex THEN 16 ELSE IF octal THEN 8 ELSE 10
        digits == IF hex THEN Drop(part, 2) ELSE IF octal THEN Drop(part, 1) ELSE part
    IN  IF part = <<>> THEN [ok |-> FALSE, n |-> 0]
        ELSE IF Range(digits) \subseteq RadixDigits(radix)
             THEN [ok |-> TRUE, n |-> SatValue(digits, radix)]
        ELSE [ok |-> FALSE, n |-> 0]

\* url::host::ends_in_a_number, on the last part of the name
IsNumber(last) ==
    last # <<>> /\ (Range(last) \subseteq Digits \/ ParseIpv4Number(last).ok)

LastOf(parts) == parts[Len(parts)]

EndsInNumber(domain) == IsNumber(LastOf(Split(domain, ".")))

\* the m bytes of n, most significant first
RECURSIVE Bytes(_, _)
Bytes(n, m) == IF m = 0 THEN <<>> ELSE Bytes(n \div 256, m - 1) \o <<n % 256>>

\* url::host::parse_ipv4addr on the numbers of the parts of a name of two or
\* more parts: [ok, a], the address as its four bytes; all parts but the last
\* are one byte each, the last fills the bytes that remain
AddrOfNumbers(nums) ==
    LET k   == Len(nums)
        bad == [ok |-> FALSE, a |-> <<>>]
    IN  IF k > MaxIpv4Parts \/ k < 2 THEN bad
        ELSE IF \E i \in 1..k : ~nums[i].ok THEN bad
        ELSE IF \E i \in 1..(k - 1) : nums[i].n > U8Max THEN bad
        ELSE IF nums[k].n >= Pow256(MaxIpv4Parts + 1 - k) THEN bad
        ELSE [ok |-> TRUE,
              a |-> [i \in 1..(k - 1) |-> nums[i].n] \o Bytes(nums[k].n, MaxIpv4Parts + 1 - k)]

NumbersOf(parts) == [i \in 1..Len(parts) |-> ParseIpv4Number(parts[i])]

ParseIpv4Addr(domain) == AddrOfNumbers(NumbersOf(Split(domain, ".")))

\* url::Host: Domain(String) or Ipv4(Ipv4Addr), the address as its four bytes
Domain(s) == [t |-> "Domain", s |-> s, a |-> <<>>]
Ipv4(a) == [t |-> "Ipv4", s |-> <<>>, a |-> a]

HostErr == [ok |-> FALSE, host |-> Domain(<<>>)]
HostOk(h) == [ok |-> TRUE, host |-> h]

HostOfAddr(ip) == IF ip.ok THEN HostOk(Ipv4(ip.a)) ELSE HostErr

\* Host::parse on the lower-cased name
HostOfDomain(domain) ==
    IF domain = <<>> THEN HostErr
    ELSE IF ~(Range(domain) \subseteq (LabelChars \cup {"."})) THEN HostErr
    ELSE IF EndsInNumber(domain) THEN HostOfAddr(ParseIpv4Addr(domain))
    ELSE HostOk(Domain(domain))

\* Host::parse(value)
HostParse(value) == HostOfDomain(ToLower(value))

----------------------------------------------------------------------------
(* The line-set builders (parse.rs)                                        *)

StripCr(l) == IF l # <<>> /\ l[Len(l)] = "\r" THEN Take(l, Len(l) - 1) ELSE l

DropLastEmpty(pieces) ==
    IF pieces[Len(pieces)] = <<>> THEN Take(pieces, Len(pieces) - 1) ELSE pieces

StripCrAll(pieces) == [i \in 1..Len(pieces) |-> StripCr(pieces[i])]

\* str::lines: the pieces between line feeds, a final empty piece dropped,
\* one trailing carriage return of each piece stripped
Lines(file_body) == StripCrAll(DropLastEmpty(Split(file_body, "\n")))

\* str::trim_start
trim_start(line) == Drop(line, RunLen(line, WhitespaceChars))

\* t[0..1] is a slice of one byte: it panics when t has no first byte or when
\* its first character is longer than one byte
SliceFirstBytePanics(t) == t = <<>> \/ ByteLen(t[1]) > 1

\* the recognizer of a format
ParseLine(source_type, line) ==
    IF source_type = "HostsFile" THEN parse_hostfile_line(line) ELSE parse_domainlist_line(line)

\* if let Ok(host_value) = Host::parse(value) { set.insert(host_value); }
InsertHost(set, h) == IF h.ok THEN set \cup {h.host} ELSE set

\* one iteration of the loop of domainlist / hostfile on the token tok of the
\* line: [panicked, set]
BuildToken(line, set, tok) ==
    IF tok.some THEN [panicked |-> FALSE, set |-> InsertHost(set, HostParse(tok.val))]
    ELSE IF line # <<>> /\ SliceFirstBytePanics(trim_start(line))
         THEN [panicked |-> TRUE, set |-> set]
    ELSE [panicked |-> FALSE, set |-> set]

BuildLine(source_type, line, set) == BuildToken(line, set, ParseLine(source_type, line))

\* the loop over the lines from line i on; a panic ends it
RECURSIVE BuildFrom(_, _, _, _), BuildRest(_, _, _, _)
BuildFrom(source_type, lines, i, set) ==
    IF i > Len(lines) THEN [panicked |-> FALSE, set |-> set]
    ELSE BuildRest(source_type, lines, i, BuildLine(source_type, lines[i], set))
BuildRest(source_type, lines, i, r) ==
    IF r.panicked THEN r ELSE BuildFrom(source_type, lines, i + 1, r.set)

\* parse::domainlist(file_body, set)
domainlist(file_body, set) == BuildFrom("DomainList", Lines(file_body), 1, set)

\* parse::hostfile(file_body, set)
hostfile(file_body, set) == BuildFrom("HostsFile", Lines(file_body), 1, set)

----------------------------------------------------------------------------
(* The source fetcher (fetch.rs)                                           *)

\* reqwest::Error: its kind (reqwest::error::Kind) and its source; a Body
\* error always has a source (reqwest::error::body)
ReqwestKinds == {"Builder", "Request", "Redirect", "Status", "Body", "Decode", "Upgrade"}
ErrorSources == {"none", "hyper_incomplete", "hyper_other", "other"}
ReqwestError(kind, source) == [kind |-> kind, source |-> source]

is_body(error) == error.kind = "Body"
is_request(error) == error.kind = "Request"

AppError(kind, url) == [kind |-> kind, url |-> url]
\* a URL is the position of its source in the configuration, from 1 on;
\* 0 is no URL
NoError == AppError("none", 0)

\* Client::handle_fetch_error: [panicked, err]; error.source().unwrap()
\* panics on an error without a source
handle_fetch_error(url, error) ==
    LET ret(kind) == [panicked |-> FALSE, err |-> AppError(kind, url)]
        rest == IF is_request(error) THEN ret("FetchRequest") ELSE ret("Fetch")
    IN  IF is_body(error)
        THEN IF error.source = "none" THEN [panicked |-> TRUE, err |-> NoError]
             ELSE IF error.source \in {"hyper_incomplete", "hyper_other"}
                  THEN IF error.source = "hyper_incomplete"
                       THEN ret("IncompleteBody")
                       ELSE rest
             ELSE ret("FetchBody")
        ELSE rest

\* what the network does to one GET: send() fails with an error, or it gives
\* a response whose text() fails with an error or gives the body
SendFails(error) == [stage |-> "send", error |-> error, body |-> <<>>]
TextFails(error) == [stage |-> "text", error |-> error, body |-> <<>>]
Delivers(body) == [stage |-> "ok", error |-> ReqwestError("none", "none"), body |-> body]

\* Result<_, AppError> of a task, or its panic
ResOk(val) == [tag |-> "Ok", val |-> val, err |-> NoError]
ResErr(err) == [tag |-> "Err", val |-> {}, err |-> err]
ResPanic == [tag |-> "Panic", val |-> {}, err |-> NoError]

\* Err(error) => return Err(Client::handle_fetch_error(url, &error))
ErrOf(e) == IF e.panicked THEN ResPanic ELSE ResErr(e.err)

\* Client::domainlist / Client::hostsfile once the body has arrived: a fresh
\* set, filled by the builder of the format
ResOfBuild(r) == IF r.panicked THEN ResPanic ELSE ResOk(r.set)

ParseBody(source_type, body) ==
    ResOfBuild(IF source_type = "HostsFile" THEN hostfile(body, {}) ELSE domainlist(body, {}))

Source(url, source_type) == [url |-> url, source_type |-> source_type]

\* Client::fetch_set: get_html_body, then the builder of the format
fetch_set(source, net) ==
    IF net.stage = "send" THEN ErrOf(handle_fetch_error(source.url, net.error))
    ELSE IF net.stage = "text" THEN ResErr(AppError("FetchParse", source.url))
    ELSE ParseBody(source.source_type, net.body)

----------------------------------------------------------------------------
(* Inputs                                                                  *)

LineDomain == <<"a", ".", "b">>
LineUpper == <<"A", ".", "b">>
LineComment == <<"#", " ", "x">>
LineAnnotated == <<"c", ".", "d", " ", "#", " ", "x">>
LineBlank == <<>>
LineSpaces == <<" ">>
LineNonAscii == <<"e_acute">>
LineSingleLabel == <<"c", "o", "m">>
LineZero == <<"0", ".", "0", ".", "0", ".", "0">>
LineShortLoopback == <<"1", "2", "7", ".", "1">>
LineHosts == <<"0", ".", "0", ".", "0", ".", "0", " ", "a", ".", "b">>
LineHostsSentinel == <<"0", ".", "0", ".", "0", ".", "0", "\t", "1", "2", "7", ".", "0", ".", "0", ".", "1">>
LineBadNumber == <<"a", ".", "1">>

SampleLines ==
    {LineDomain, LineUpper, LineComment, LineAnnotated,
     LineBlank, LineSpaces, LineNonAscii, LineSingleLabel,
     LineZero, LineShortLoopback, LineHosts, LineHostsSentinel,
     LineBadNumber}

\* the bodies of at most n lines of the samples, each line ended by a line feed
RECURSIVE BodiesUpTo(_)
BodiesUpTo(n) ==
    IF n = 0 THEN {<<>>}
    ELSE BodiesUpTo(n - 1) \cup {l \o <<"\n">> \o b : l \in SampleLines, b \in BodiesUpTo(n - 1)}

MaxLines == 2

Bodies == BodiesUpTo(MaxLines)

SampleUrls == {1, 2}

SourceTypes == {"DomainList", "HostsFile"}

\* the errors reqwest can give: a Body error always has a source
ReqwestErrors ==
    {ReqwestError(k, src) : k \in ReqwestKinds, src \in ErrorSources} \
        {ReqwestError("Body", "none")}

\* what the network can do to one GET
Nets ==
    {SendFails(e) : e \in ReqwestErrors}
        \cup {TextFails(e) : e \in {x \in ReqwestErrors : x.kind \in {"Body", "Decode"}}}
        \cup {Delivers(b) : b \in Bodies}

\* digit strings: every string of 1 to MaxDigitRun sample digits, alone or
\* followed by a character that is no digit
SampleDigits == {"0", "1", "2", "5", "6", "9"}

MaxDigitRun == 4

RECURSIVE StringsOf(_, _)
StringsOf(chars, n) ==
    IF n = 0 THEN {<<>>}
    ELSE {<<c>> \o w : c \in chars, w \in StringsOf(chars, n - 1)}

DigitRuns == UNION {StringsOf(SampleDigits, n) : n \in 1..MaxDigitRun}

DigitTails == {<<>>, <<".">>, <<"a">>}

DigitInputs == {d \o t : d \in DigitRuns, t \in DigitTails} \cup {<<>>, <<".">>}

\* names: 1 to MaxLabels sample labels joined by dots, followed by a remainder
SampleLabels == {<<"a">>, <<"B">>, <<"1">>, <<"-", "_">>, Rep("a", MaxLabelLen), Rep("a", MaxLabelLen + 1)}

MaxLabels == 3

RECURSIVE NamesOf(_)
NamesOf(n) ==
    IF n = 1 THEN SampleLabels
    ELSE {l \o <<".">> \o w : l \in SampleLabels, w \in NamesOf(n - 1)}

Names == UNION {NamesOf(n) : n \in 1..MaxLabels}

Remainders ==
    {<<>>, <<" ", "#", " ", "x">>, <<"#">>, <<"\t">>, <<".">>, <<".", ".">>, <<".", "c">>,
     <<".", " ">>, <<"c">>, Rep("c", MaxLabelLen), <<"e_acute">>}

NameInputs == {w \o r : w \in Names, r \in Remainders}

\* lines of a hosts file: 1 to MaxOctets sample octets joined by dots, then
\* whitespace (or none), then a name
SampleOctets == {<<"0">>, <<"2", "5", "5">>, <<"2", "5", "6">>}

MaxOctets == 5

RECURSIVE AddressesOf(_)
AddressesOf(n) ==
    IF n = 1 THEN SampleOctets
    ELSE {o \o <<".">> \o w : o \in SampleOctets, w \in AddressesOf(n - 1)}

Addresses == UNION {AddressesOf(n) : n \in 1..MaxOctets}

Spaces == {<<>>, <<" ">>, <<"\t">>, <<" ", "\t", " ">>}

HostfileNames ==
    {<<"a", ".", "b">>, <<"B", ".", "-", "_", ".", "1">>, Rep("a", MaxLabelLen) \o <<".", "a">>}

HostfileInputs == {a \o w \o h : a \in Addresses, w \in Spaces, h \in HostfileNames}

ParseInputs == DigitInputs \cup NameInputs \cup HostfileInputs \cup Addresses \cup SampleLines

LF == <<"\n">>

\* two sentinels and a domain, whichever the format
BodySentinels == LineHostsSentinel \o LF \o LineDomain \o LF \o LineHosts \o LF

\* domains only
BodyPlain == LineUpper \o LF \o LineAnnotated \o LF

\* a line of spaces after a domain
BodySpaces == LineDomain \o LF \o LineSpaces \o LF

PipelineBodies == {BodySentinels, BodyPlain, BodySpaces}

\* what the network can do to one GET of the run
PipelineNets ==
    {Delivers(b) : b \in PipelineBodies} \cup {SendFails(ReqwestError("Request", "other"))}

\* fs::read_to_string("blocked-names.txt")
NoFile == [found |-> FALSE, content |-> <<>>]
File(content) == [found |-> TRUE, content |-> content]
CustomFiles == {NoFile} \cup {File(b) : b \in PipelineBodies}

MaxSources == 4

\* the [blocklists] table of the configuration: each URL is its position
Blocklists(nh, nd) ==
    [hosts_file_blocklist_urls |-> [i \in 1..nh |-> i],
     domain_blocklist_urls |-> [i \in 1..nd |-> nh + i]]

Configs == {Blocklists(nh, nd) : nh \in 0..MaxSources, nd \in 0..MaxSources} 

----------------------------------------------------------------------------
(* State                                                                   *)

VARIABLES
    pc,           \* where main is
    sources,      \* main: sources
    next,         \* domainlists: the next source the stream yields
    inflight,     \* domainlists: the tasks in the buffer of buffer_unordered
    fetched,      \* the outcome of the task of each source, once it resolved
    result_sets,  \* domainlists: result_sets, in order of completion
    merge_i,      \* domainlists: the position of the merge loop
    set,          \* main: set, the accumulator
    ret,          \* what domainlists returned
    result,       \* main: result, the sorted list handed to the renderer
    f_pc,         \* one fetch_set call: where it is
    f_source,     \* one fetch_set call: its source
    f_net,        \* one fetch_set call: what the network did
    f_result,     \* one fetch_set call: what it returned
    p_pc,         \* one recognizer call: where it is
    p_input,      \* one recognizer call: its input
    p_fn,         \* one recognizer call: the recognizer
    p_out         \* one recognizer call: what it returned

mainVars == <<pc, sources, next, inflight, fetched, result_sets, merge_i, set, ret, result>>
fetchVars == <<f_pc, f_source, f_net, f_result>>
parseVars == <<p_pc, p_input, p_fn, p_out>>
vars == <<mainVars, fetchVars, parseVars>>

ResNone == [tag |-> "None", val |-> {}, err |-> NoError]
NoNet == [stage |-> "none", error |-> ReqwestError("none", "none"), body |-> <<>>]

MainIdle ==
    /\ pc = "idle"
    /\ sources = <<>>
    /\ next = 1
    /\ inflight = {}
    /\ fetched = <<>>
    /\ result_sets = <<>>
    /\ merge_i = 1
    /\ set = {}
    /\ ret = ResNone
    /\ result = <<>>

FetchIdle ==
    /\ f_pc = "idle"
    /\ f_source = Source(0, "DomainList")
    /\ f_net = NoNet
    /\ f_result = ResNone

ParseIdle ==
    /\ p_pc = "idle"
    /\ p_input = <<>>
    /\ p_fn = "none"
    /\ p_out = None

----------------------------------------------------------------------------
(* The order of url::Host (derived Ord): a domain before an address,       *)
(* domains by their bytes, addresses by their bytes                        *)

AsciiOrder ==
    <<"-", ".", "0", "1", "2", "3", "4", "5", "6", "7", "8", "9", "_">> \o LowerLetters

\* the place of a character of a canonical name in the order of the bytes
Rank(c) == CHOOSE i \in DOMAIN AsciiOrder : AsciiOrder[i] = c

Ranks(name) == [i \in 1..Len(name) |-> Rank(name[i])]

\* the lexicographic order of two sequences of numbers
RECURSIVE SeqLeq(_, _)
SeqLeq(x, y) ==
    IF x = <<>> THEN TRUE
    ELSE IF y = <<>> THEN FALSE
    ELSE IF Head(x) = Head(y) THEN SeqLeq(Tail(x), Tail(y))
    ELSE Head(x) < Head(y)

HostLeq(g, h) ==
    IF g.t # h.t THEN g.t = "Domain"
    ELSE IF g.t = "Domain" THEN SeqLeq(Ranks(g.s), Ranks(h.s))
    ELSE SeqLeq(g.a, h.a)

MinHost(S) == CHOOSE g \in S : \A h \in S : HostLeq(g, h)

\* set.into_iter().collect() and result.sort()
RECURSIVE SortHosts(_), SortFrom(_, _)
SortHosts(S) == IF S = {} THEN <<>> ELSE SortFrom(S, MinHost(S))
SortFrom(S, m) == <<m>> \o SortHosts(S \ {m})

----------------------------------------------------------------------------
(* main and Client::domainlists                                            *)

\* sources_from_blocklists
sources_from_blocklists(blocklists) ==
    LET h == blocklists.hosts_file_blocklist_urls
        d == blocklists.domain_blocklist_urls
    IN  [i \in 1..(Len(h) + Len(d)) |->
            IF i <= Len(h) THEN Source(h[i], "HostsFile")
            ELSE Source(d[i - Len(h)], "DomainList")]

\* main up to the call of domainlists
Init ==
    /\ FetchIdle
    /\ ParseIdle
    /\ pc = "start"
    /\ sources \in {sources_from_blocklists(b) :
                       b \in {c \in Configs :
                                 Len(c.hosts_file_blocklist_urls)
                                     + Len(c.domain_blocklist_urls) <= MaxSources}}
    /\ next = 1
    /\ inflight = {}
    /\ fetched = [i \in 1..Len(sources) |-> ResNone]
    /\ result_sets = <<>>
    /\ merge_i = 1
    /\ set = {}
    /\ ret = ResNone
    /\ result = <<>>

concurrent_downloads == 3

\* CanAdmit without the cap of the buffer
CanAdmitUncapped == next <= Len(sources)

\* buffer_unordered: the stream is asked for its next future while the
\* buffer holds fewer than concurrent_downloads of them
CanAdmit == next <= Len(sources) /\ Cardinality(inflight) < concurrent_downloads

\* collect: the stream of results has ended
CollectDone(nxt, infl) == nxt > Len(sources) /\ infl = {}

\* Extend, replacing the accumulator instead of adding to it
ExtendReplacing(acc, set_values) == set_values

\* set.extend(set_values)
Extend(acc, set_values) == acc \cup set_values

\* SetAfterTask, for tasks that insert into the accumulator itself
SetAfterTaskShared(r) == set \cup r.val

\* the accumulator while a task resolves with r: the task fills a set of its own
SetAfterTask(r) == set

\* fetch_client.domainlists(&sources, &mut set) is called and polled
Start ==
    /\ pc = "start"
    /\ IF CollectDone(next, inflight)
       THEN pc' = "returned" /\ ret' = ResOk({})
       ELSE pc' = "fetching" /\ ret' = ret
    /\ UNCHANGED <<sources, next, inflight, fetched, result_sets, merge_i, set, result>>
    /\ UNCHANGED <<fetchVars, parseVars>>

\* buffer_unordered takes the next future of the stream into its buffer
Admit ==
    /\ pc = "fetching"
    /\ CanAdmit
    /\ inflight' = inflight \cup {next}
    /\ next' = next + 1
    /\ UNCHANGED <<pc, sources, fetched, result_sets, merge_i, set, ret, result>>
    /\ UNCHANGED <<fetchVars, parseVars>>

\* a task of the buffer resolves with r: a panic of the task ends the run;
\* otherwise collect pushes r, and once the stream has ended the merge begins
Resolved(i, r) ==
    /\ fetched' = [fetched EXCEPT ![i] = r]
    /\ inflight' = inflight \ {i}
    /\ set' = SetAfterTask(r)
    /\ IF r.tag = "Panic"
       THEN pc' = "panicked" /\ result_sets' = result_sets
       ELSE /\ result_sets' = Append(result_sets, r)
            /\ pc' = IF CollectDone(next, inflight') THEN "merging" ELSE pc

\* the buffer is polled once it is full or the stream is exhausted
Resolve ==
    /\ pc = "fetching"
    /\ ~CanAdmit
    /\ \E i \in inflight : \E net \in PipelineNets : Resolved(i, fetch_set(sources[i], net))
    /\ UNCHANGED <<sources, next, merge_i, ret, result>>
    /\ UNCHANGED <<fetchVars, parseVars>>

\* one iteration of the loop over result_sets: unwrap panics on an Err,
\* drain empties the set of the result; after the last one, Ok(()) is returned
Merge ==
    /\ pc = "merging"
    /\ merge_i <= Len(result_sets)
    /\ IF result_sets[merge_i].tag = "Ok"
       THEN /\ set' = Extend(set, result_sets[merge_i].val)
            /\ result_sets' = [result_sets EXCEPT ![merge_i].val = {}]
            /\ merge_i' = merge_i + 1
            /\ IF merge_i = Len(result_sets)
               THEN pc' = "returned" /\ ret' = ResOk({})
               ELSE pc' = pc /\ ret' = ret
       ELSE /\ pc' = "panicked"
            /\ UNCHANGED <<set, result_sets, merge_i, ret>>
    /\ UNCHANGED <<sources, next, inflight, fetched, result>>
    /\ UNCHANGED <<fetchVars, parseVars>>

SentinelNames ==
    {<<"0", ".", "0", ".", "0", ".", "0">>,
     <<"1", "2", "7", ".", "0", ".", "0", ".", "1">>,
     <<"2", "5", "5", ".", "2", "5", "5", ".", "2", "5", "5", ".", "2", "5", "5">>}

\* set.remove(&Host::parse(..).unwrap()), three times
RemoveSentinels ==
    /\ pc = "returned"
    /\ ret.tag = "Ok"
    /\ set' = set \ {HostParse(n).host : n \in SentinelNames}
    /\ pc' = "sentinels_removed"
    /\ UNCHANGED <<sources, next, inflight, fetched, result_sets, merge_i, ret, result>>
    /\ UNCHANGED <<fetchVars, parseVars>>

\* the set after get_custom_blocked_names: [panicked, set]
CustomBlocked(file, acc) ==
    IF file.found THEN domainlist(file.content, acc) ELSE [panicked |-> FALSE, set |-> acc]

AfterCustom(r) ==
    /\ set' = r.set
    /\ pc' = IF r.panicked THEN "panicked" ELSE "custom_merged"

\* get_custom_blocked_names("blocked-names.txt", &mut set)
GetCustomBlockedNames ==
    /\ pc = "sentinels_removed"
    /\ \E file \in CustomFiles : AfterCustom(CustomBlocked(file, set))
    /\ UNCHANGED <<sources, next, inflight, fetched, result_sets, merge_i, ret, result>>
    /\ UNCHANGED <<fetchVars, parseVars>>

\* the sorted list is handed to write_blocklist_rpz_file
WriteBlocklist ==
    /\ pc = "custom_merged"
    /\ result' = SortHosts(set)
    /\ pc' = "written"
    /\ UNCHANGED <<sources, next, inflight, fetched, result_sets, merge_i, set, ret>>
    /\ UNCHANGED <<fetchVars, parseVars>>

Next ==
    \/ Start
    \/ Admit
    \/ Resolve
    \/ Merge
    \/ RemoveSentinels
    \/ GetCustomBlockedNames
    \/ WriteBlocklist

Spec == Init /\ [][Next]_vars

\* the runs in which the future of Client::domainlists is polled until it is
\* done (block_on in main) and a task in the buffer does resolve
SpecLive == Spec /\ WF_vars(Start) /\ WF_vars(Admit) /\ WF_vars(Resolve)

----------------------------------------------------------------------------
(* One call of Client::fetch_set                                           *)

InitFetch ==
    /\ MainIdle
    /\ ParseIdle
    /\ f_pc = "start"
    /\ f_source \in {Source(u, t) : u \in SampleUrls, t \in SourceTypes}
    /\ f_net = NoNet
    /\ f_result = ResNone

\* self.client.get(url).send().await gives a response
FetchSendOk ==
    /\ f_pc = "start"
    /\ f_pc' = "sent"
    /\ UNCHANGED <<f_source, f_net, f_result, mainVars, parseVars>>

\* self.client.get(url).send().await gives an error
FetchSendErr ==
    /\ f_pc = "start"
    /\ \E net \in {n \in Nets : n.stage = "send"} :
          /\ f_net' = net
          /\ f_result' = fetch_set(f_source, net)
    /\ f_pc' = "done"
    /\ UNCHANGED <<f_source, mainVars, parseVars>>

\* response.text().await gives an error
FetchTextErr ==
    /\ f_pc = "sent"
    /\ \E net \in {n \in Nets : n.stage = "text"} :
          /\ f_net' = net
          /\ f_result' = fetch_set(f_source, net)
    /\ f_pc' = "done"
    /\ UNCHANGED <<f_source, mainVars, parseVars>>

\* response.text().await gives the body, which the builder parses
FetchTextOk ==
    /\ f_pc = "sent"
    /\ \E net \in {n \in Nets : n.stage = "ok"} :
          /\ f_net' = net
          /\ f_result' = fetch_set(f_source, net)
    /\ f_pc' = "done"
    /\ UNCHANGED <<f_source, mainVars, parseVars>>

NextFetch == FetchSendOk \/ FetchSendErr \/ FetchTextErr \/ FetchTextOk

SpecFetch == InitFetch /\ [][NextFetch]_vars

----------------------------------------------------------------------------
(* One call of a recognizer of the grammar                                 *)

InitParse ==
    /\ MainIdle
    /\ FetchIdle
    /\ p_pc = "start"
    /\ p_input \in ParseInputs
    /\ p_fn = "none"
    /\ p_out = None

Returns(fn, out) ==
    /\ p_pc = "start"
    /\ p_pc' = "done"
    /\ p_fn' = fn
    /\ p_out' = out
    /\ UNCHANGED <<p_input, mainVars, fetchVars>>

CallOctet == Returns("parse_ipv4_octet", parse_ipv4_octet(p_input))

CallHostnameElement == Returns("parse_hostname_element", parse_hostname_element(p_input))

CallHostname == Returns("parse_hostname", parse_hostname(p_input))

CallIpv4Address == Returns("parse_ipv4_address", parse_ipv4_address(p_input))

CallDomainlistLine == Returns("parse_domainlist_line", parse_domainlist_line(p_input))

CallHostfileLine == Returns("parse_hostfile_line", parse_hostfile_line(p_input))

NextParse ==
    \/ CallOctet
    \/ CallHostnameElement
    \/ CallHostname
    \/ CallIpv4Address
    \/ CallDomainlistLine
    \/ CallHostfileLine

SpecParse == InitParse /\ [][NextParse]_vars

----------------------------------------------------------------------------
(* Properties                                                              *)

DomainlistsEnded == pc \notin {"start", "fetching", "merging"}

SomeFetchFailed == \E i \in 1..Len(sources) : fetched[i].tag = "Err"

\* C1: while Client::domainlists runs, the tasks that were started and have
\* not resolved are never more than 3.
C1_AtMostThreeInFlight == Cardinality(inflight) <= 3

\* three tasks are in flight while a further source waits in the stream
C1_Witness == pc = "fetching" /\ Cardinality(inflight) = 3 /\ next <= Len(sources)

\* C2: when the fetch of a source failed, Client::domainlists ends by
\* returning Err with the error of a failed source, and never by a panic.
C2_FailureReturnedAsErr ==
    (DomainlistsEnded /\ SomeFetchFailed)
        => /\ pc # "panicked"
           /\ ret.tag = "Err"
           /\ \E i \in 1..Len(sources) : fetched[i].tag = "Err" /\ ret.err = fetched[i].err

Sentinels == {Ipv4(<<0, 0, 0, 0>>), Ipv4(<<127, 0, 0, 1>>), Ipv4(<<255, 255, 255, 255>>)}

\* C3: the list handed to the renderer holds none of the hosts 0.0.0.0,
\* 127.0.0.1 and 255.255.255.255.
C3_NoSentinelInOutput == pc = "written" => Range(result) \cap Sentinels = {}

\* the hosts of the lines of a body that the grammar and Host::parse accept
AcceptedHosts(source_type, body) ==
    {HostParse(ParseLine(source_type, l).val).host :
        l \in {x \in Range(Lines(body)) :
                  /\ ParseLine(source_type, x).some
                  /\ HostParse(ParseLine(source_type, x).val).ok}}

\* C4: whatever body arrives, the builder of the format returns normally
\* with the host of every line that the grammar and Host::parse accept.
C4_BuilderNeverAborts ==
    (f_pc = "done" /\ f_net.stage = "ok")
        => /\ f_result.tag = "Ok"
           /\ AcceptedHosts(f_source.source_type, f_net.body) \subseteq f_result.val

AllResolved ==
    /\ next > Len(sources)
    /\ inflight = {}
    /\ \A i \in 1..Len(sources) : fetched[i].tag # "None"

\* C5: the accumulator changes, and the merge loop advances, only once every
\* source was dispatched and has resolved; the loop takes one result per step.
C5_MergeAfterAllResolved ==
    [][/\ (set' # set \/ merge_i' # merge_i) => AllResolved
       /\ merge_i' \in {merge_i, merge_i + 1}]_vars

\* the merge of a run of more sources than the buffer holds is under way
C5_Witness == pc = "merging" /\ merge_i > 1 /\ set # {} /\ Len(sources) > 3

\* the kind the taxonomy gives an error of the HTTP client
Taxonomy(error) ==
    IF error.kind = "Body" /\ error.source = "hyper_incomplete" THEN "IncompleteBody"
    ELSE IF error.kind = "Body" THEN "FetchBody"
    ELSE IF error.kind \in {"Builder", "Request"} THEN "FetchRequest"
    ELSE IF error.kind = "Decode" THEN "FetchParse"
    ELSE "Fetch"

\* C6: a failed retrieval, at send or at text, is classified by the first
\* matching rule of the taxonomy.
C6_ClassifiedByTaxonomy ==
    (f_pc = "done" /\ f_net.stage \in {"send", "text"})
        => /\ f_result.tag = "Err"
           /\ f_result.err.kind = Taxonomy(f_net.error)
           /\ f_result.err.url = f_source.url

\* C7: when a fetch failed, the accumulator holds after Client::domainlists
\* what it held before it (nothing).
C7_FailedMergeLeavesAccumulator == (DomainlistsEnded /\ SomeFetchFailed) => set = {}

\* C8: when every source succeeded, Client::domainlists leaves the
\* accumulator equal to the union of the sets of the sources.
C8_MergeIsUnion ==
    (pc = "returned" /\ \A i \in 1..Len(sources) : fetched[i].tag = "Ok")
        => /\ set = UNION {fetched[i].val : i \in 1..Len(sources)}
           /\ ret.tag = "Ok"

\* more sources than the buffer holds were merged, two of them with
\* different sets that share a host
C8_Witness ==
    /\ pc = "returned"
    /\ Len(sources) > 3
    /\ \E i, j \in 1..Len(sources) :
          /\ fetched[i].val # fetched[j].val
          /\ fetched[i].val \cap fetched[j].val # {}
          /\ Cardinality(set) < Cardinality(fetched[i].val) + Cardinality(fetched[j].val)

\* The lengths n such that the first n characters of the line are a name of
\* two or more labels, each of 1 to 63 label characters: the line is read
\* from character i on, cur characters into a label, after dots dots.
RECURSIVE NameEnds(_, _, _, _)
NameEnds(line, i, cur, dots) ==
    IF i > Len(line) THEN {}
    ELSE IF line[i] = "." THEN (IF cur = 0 THEN {} ELSE NameEnds(line, i + 1, 0, dots + 1))
    ELSE IF line[i] \notin LabelChars \/ cur + 1 > 63 THEN {}
    ELSE (IF dots >= 1 THEN {i} ELSE {}) \cup NameEnds(line, i + 1, cur + 1, dots)

\* the lengths of the names the line starts with
NamePrefixes(line) == NameEnds(line, 1, 0, 0)

\* the name of n characters ends the line or is followed by a character that
\* is neither a label character nor a dot
EndsCleanly(line, n) == n = Len(line) \/ line[n + 1] \notin LabelChars \cup {"."}

\* C9, as claimed: a line that starts with a name gives a token, whatever
\* follows the name.
C9_TokenWhateverFollows ==
    (p_fn = "parse_domainlist_line" /\ NamePrefixes(p_input) # {}) => p_out.some

\* C9, amended: a line that starts with a name followed by nothing or by a
\* character that is neither a label character nor a dot gives that name as
\* the token; the rest of the line is discarded.
C9_TokenBeforeCleanRemainder ==
    p_fn = "parse_domainlist_line"
        => \A n \in NamePrefixes(p_input) :
              EndsCleanly(p_input, n) => p_out = Some(Take(p_input, n))

\* a name followed by an annotation gave the name
C9_Witness ==
    /\ p_fn = "parse_domainlist_line"
    /\ \E n \in NamePrefixes(p_input) :
          /\ EndsCleanly(p_input, n)
          /\ Len(p_input) > n + 1
          /\ p_out = Some(Take(p_input, n))

\* the number of digits the input starts with
DigitRun(input) == Cardinality({n \in 1..Len(input) : \A i \in 1..n : input[i] \in Digits})

\* the lengths of the prefixes of 1 to 3 digits whose value is at most 255
ValidOctetPrefixes(input) ==
    {n \in 1..3 : n <= DigitRun(input) /\ DecValue(Take(input, n)) <= 255}

Max(S) == CHOOSE x \in S : \A y \in S : y <= x

\* C10, as claimed: on an input that starts with a digit the octet
\* recognizer consumes the longest prefix of 1 to 3 digits whose value is at
\* most 255 and returns the rest.
C10_LongestValidPrefix ==
    (p_fn = "parse_ipv4_octet" /\ DigitRun(p_input) >= 1)
        => LET n == Max(ValidOctetPrefixes(p_input))
           IN  p_out.ok /\ p_out.out = Take(p_input, n) /\ p_out.rest = Drop(p_input, n)

\* C10, amended: on an input that starts with a digit the octet recognizer
\* takes the first 3 digits of the run (all of a shorter run); it returns
\* them, with the rest of the input, when their value is at most 255, and
\* rejects the input otherwise.
C10_FirstThreeDigits ==
    (p_fn = "parse_ipv4_octet" /\ DigitRun(p_input) >= 1)
        => LET n == IF DigitRun(p_input) > 3 THEN 3 ELSE DigitRun(p_input)
           IN  IF DecValue(Take(p_input, n)) <= 255
               THEN p_out.ok /\ p_out.out = Take(p_input, n) /\ p_out.rest = Drop(p_input, n)
               ELSE ~p_out.ok

\* a run of 4 digits was split after its first 3
C10_Witness ==
    /\ p_fn = "parse_ipv4_octet"
    /\ DigitRun(p_input) = 4
    /\ p_out.ok
    /\ Len(p_out.out) = 3
    /\ Len(p_out.rest) = 1

\* the number of characters of C the input starts with
PrefixRun(input, C) == Cardinality({n \in 1..Len(input) : \A i \in 1..n : input[i] \in C})

\* s is made of lo to hi octets joined by dots, each of 1 to 3 digits with a
\* value of at most 255
IsAddress(s, lo, hi) ==
    /\ Len(Split(s, ".")) >= lo
    /\ Len(Split(s, ".")) <= hi
    /\ \A i \in 1..Len(Split(s, ".")) :
          LET o == Split(s, ".")[i]
          IN  /\ Len(o) \in 1..3
              /\ Range(o) \subseteq Digits
              /\ DecValue(o) <= 255

\* the parts of a line: the digits and dots it starts with, the whitespace
\* (space, tab, carriage return, line feed) after them, and the rest
AddressPart(line) == Take(line, PrefixRun(line, Digits \cup {"."}))
SpacePart(line) ==
    Take(Drop(line, Len(AddressPart(line))),
         PrefixRun(Drop(line, Len(AddressPart(line))), {" ", "\t", "\r", "\n"}))
NamePart(line) == Drop(line, Len(AddressPart(line)) + Len(SpacePart(line)))

\* the line is an address of 1 to 4 octets, whitespace, and a name
IsHostfileLine(line) ==
    /\ IsAddress(AddressPart(line), 1, 4)
    /\ SpacePart(line) # <<>>
    /\ Len(NamePart(line)) \in NamePrefixes(NamePart(line))

\* C11: on a line made of an address of 1 to 4 valid octets, whitespace and
\* a name of two or more valid labels, the hosts-file line recognizer returns
\* exactly the name; the address production rejects 5 or more octets.
C11_HostfileLineGivesName ==
    /\ (p_fn = "parse_hostfile_line" /\ IsHostfileLine(p_input))
          => p_out = Some(NamePart(p_input))
    /\ (p_fn = "parse_ipv4_address" /\ IsAddress(AddressPart(p_input), 5, Len(p_input)))
          => ~p_out.ok

\* a line of a 4-octet address, several whitespace characters and a name gave
\* the name
C11_Witness ==
    /\ p_fn = "parse_hostfile_line"
    /\ IsHostfileLine(p_input)
    /\ IsAddress(AddressPart(p_input), 4, 4)
    /\ Len(SpacePart(p_input)) > 1
    /\ p_out = Some(NamePart(p_input))

\* the pieces of s between its dots are n or more labels of label characters
IsDotted(s, n) ==
    /\ Len(Split(s, ".")) >= n
    /\ \A i \in 1..Len(Split(s, ".")) :
          /\ Split(s, ".")[i] # <<>>
          /\ Range(Split(s, ".")[i]) \subseteq LabelChars

\* every label of s has at most 63 characters
LabelsFit(s) == \A i \in 1..Len(Split(s, ".")) : Len(Split(s, ".")[i]) <= 63

\* C12: the hostname recognizer returns a name of two or more labels of 1 to
\* 63 label characters whole, with nothing left over; it rejects a single
\* label, and it rejects a name with a label of 64 or more characters.
C12_WholeNameOrRejected ==
    p_fn = "parse_hostname" =>
        /\ (IsDotted(p_input, 2) /\ LabelsFit(p_input)) => p_out = POk(<<>>, p_input)
        /\ (p_input # <<>> /\ Range(p_input) \subseteq LabelChars) => ~p_out.ok
        /\ (IsDotted(p_input, 2) /\ ~LabelsFit(p_input)) => ~p_out.ok

\* a name of three labels, one of them of 63 characters, was returned whole
C12_Witness ==
    /\ p_fn = "parse_hostname"
    /\ IsDotted(p_input, 3)
    /\ Len(Split(p_input, ".")) = 3
    /\ \E i \in 1..3 : Len(Split(p_input, ".")[i]) = 63
    /\ p_out = POk(<<>>, p_input)

\* collect has every result: each source was admitted and resolved to Ok or Err
CollectedAll ==
    /\ pc \notin {"start", "fetching"}
    /\ next > Len(sources)
    /\ inflight = {}
    /\ \A i \in 1..Len(sources) : fetched[i].tag \in {"Ok", "Err"}
    /\ Len(result_sets) = Len(sources)

\* sources enter the buffer one at a time in input order, and a source gets
\* its outcome once, on leaving the buffer, and keeps it
FetchedOnceStep ==
    /\ next' \in {next, next + 1}
    /\ next' = next + 1 => inflight' = inflight \cup {next}
    /\ \A i \in 1..Len(sources) :
          /\ (i \in inflight' /\ i \notin inflight) => (i = next /\ fetched[i].tag = "None")
          /\ fetched[i].tag # "None" => (fetched'[i] = fetched[i] /\ i \notin inflight')
          /\ fetched'[i] # fetched[i] => (i \in inflight /\ i \notin inflight')

\* C13: when the fetches that are started resolve, every source is admitted,
\* in input order, is fetched exactly once (no retry of a failure, no source
\* skipped), and collect ends with a result for each source.
C13_EverySourceFetchedOnce ==
    /\ [][FetchedOnceStep]_vars
    /\ <>CollectedAll

====
